---- MODULE Spec2Model ----
(***************************************************************************)
(* Model of mars_orbiter.py: the Satellite and Planet sprites.             *)
(*                                                                         *)
(* Numbers.  The program keeps x, y, dx, dy, heading and distance as       *)
(* Python floats.  The model keeps them in fixed point: an integer v       *)
(* stands for the value v / Scale, so a pixel is Scale units, the thrust   *)
(* delta 0.05 is 5 units and a degree is Scale units.  Division, hypot and *)
(* atan2 round to the nearest unit (atan2 through a polynomial that is     *)
(* exact on the axes and the diagonals and within 0.1 degree elsewhere).   *)
(* Exact float equality (the crash test) becomes exact equality of units.  *)
(*                                                                         *)
(* pygame objects.  An image is the record [base, angle]: which loaded     *)
(* surface it was made from and the angle it was rotated by.  Sounds,      *)
(* colour keys and the drawn path line change no attribute the program     *)
(* reads back and are left out.                                            *)
(***************************************************************************)
EXTENDS Integers, Sequences, FiniteSets, TLC

VARIABLES
    sat,      \* the Satellite object's attributes
    planet,   \* the Planet object's attributes
    keys,     \* the keys held at the last pg.key.get_pressed()
    fired,    \* arguments of the thruster call of the last operation, or << >>
    op,       \* the method that ran last
    err,      \* "none", or the exception the last method raised
    thrusts,  \* thruster activations since the satellite had fuel 100
    nops      \* operations run so far

vars == <<sat, planet, keys, fired, op, err, thrusts, nops>>

----------------------------------------------------------------------------
(* Bounds of the model *)

MaxOps == 3

MaxDist == 32500

MaxSpeed == 100000

----------------------------------------------------------------------------
(* Fixed point *)

Scale == 100

Abs(a) == IF a < 0 THEN -a ELSE a

Sign(a) == IF a < 0 THEN -1 ELSE IF a > 0 THEN 1 ELSE 0

\* a / b to the nearest unit, halves away from zero; b > 0
RoundDiv(a, b) ==
    LET q == Abs(a) \div b
        r == Abs(a) % b
    IN  Sign(a) * (IF r >= b - r THEN q + 1 ELSE q)

\* a * b / Scale to the nearest unit, split so that no product leaves 32 bits
MulScale(a, b) ==
    Sign(a) * Sign(b) *
        (Abs(a) * (Abs(b) \div Scale) + RoundDiv(Abs(a) * (Abs(b) % Scale), Scale))

\* int(v): a pygame Rect keeps whole pixels
Pixel(v) == Sign(v) * (Abs(v) \div Scale)

RECURSIVE SqrtSearch(_, _, _)
SqrtSearch(n, lo, hi) ==
    IF lo >= hi THEN lo
    ELSE LET mid == (lo + hi + 1) \div 2
         IN  IF mid * mid <= n THEN SqrtSearch(n, mid, hi)
             ELSE SqrtSearch(n, lo, mid - 1)

\* the square root of n to the nearest integer
Sqrt(n) ==
    LET r == SqrtSearch(n, 0, 46340)
    IN  IF n - r * r > r THEN r + 1 ELSE r

\* math.hypot(a, b) of two fixed-point values, in units
hypot(a, b) == Sqrt(a * a + b * b)

\* atan(a / b) in units of a degree, for 0 <= a <= b, b > 0:
\* 45 t + t (1 - t) (14.02 + 3.80 t) with t = a / b in thousandths
AtanFrac(a, b) ==
    LET t == RoundDiv(a * 1000, b)
    IN  RoundDiv(45 * Scale * t, 1000)
        + RoundDiv(t * (1000 - t) * (1402 + RoundDiv(380 * t, 1000)), 100000000 \div Scale)

\* math.atan2(yy, xx) * 180 / math.pi, in units of a degree
atan2deg(yy, xx) ==
    IF yy = 0 /\ xx = 0 THEN 0
    ELSE LET a == Abs(yy)
             b == Abs(xx)
             base == IF b >= a THEN AtanFrac(a, b) ELSE 90 * Scale - AtanFrac(b, a)
             theta == IF xx >= 0 THEN base ELSE 180 * Scale - base
         IN  IF yy < 0 THEN -theta ELSE theta

----------------------------------------------------------------------------
(* Satellite *)

Keys == {"K_RIGHT", "K_LEFT", "K_UP", "K_DOWN"}

\* self.fuel = 100
InitialFuel == 100

\* The thrust delta 0.05, in units
ThrustDelta == 5

\* Satellite.__init__ with the outcomes rx, ry of random.randrange and rdx of
\* random.choice
Satellite__init__(rx, ry, rdx) ==
    [ x           |-> rx * Scale,
      y           |-> ry * Scale,
      dx          |-> rdx * Scale,
      dy          |-> 0,
      heading     |-> 0,
      fuel        |-> InitialFuel,
      mass        |-> 1,
      distance    |-> 0,
      image       |-> [base |-> "image_sat", angle |-> 0],
      rect_center |-> << >> ]

\* Mutant: the upper end taken as inclusive, as random.randint would
RandX_inclusive == 315 .. 425

\* random.randrange(315, 425)
RandX == 315 .. 424

\* random.randrange(70, 180)
RandY == 70 .. 179

\* random.choice([-3, 3])
RandDx == {-3, 3}

\* Mutant: a thruster that refuses to fire on an empty tank
thruster_guarded(s, ddx, ddy) ==
    IF s.fuel <= 0 THEN s
    ELSE [s EXCEPT !.dx = @ + ddx, !.dy = @ + ddy, !.fuel = @ - 2]

\* Satellite.thruster(dx, dy); thrust.play() changes no attribute
thruster(s, ddx, ddy) ==
    [s EXCEPT !.dx = @ + ddx, !.dy = @ + ddy, !.fuel = @ - 2]

\* The if / elif chain of check_keys: the arguments of the one thruster call
\* made with the keys k held, or << >> when it makes none
pressed(k) ==
    IF "K_RIGHT" \in k THEN <<ThrustDelta, 0>>
    ELSE IF "K_LEFT" \in k THEN <<-ThrustDelta, 0>>
    ELSE IF "K_UP" \in k THEN <<0, -ThrustDelta>>
    ELSE IF "K_DOWN" \in k THEN <<0, ThrustDelta>>
    ELSE << >>

\* Mutant: four independent ifs in place of the if / elif chain
check_keys_each(s, k) ==
    LET s1 == IF "K_RIGHT" \in k THEN thruster(s, ThrustDelta, 0) ELSE s
        s2 == IF "K_LEFT" \in k THEN thruster(s1, -ThrustDelta, 0) ELSE s1
        s3 == IF "K_UP" \in k THEN thruster(s2, 0, -ThrustDelta) ELSE s2
    IN  IF "K_DOWN" \in k THEN thruster(s3, 0, ThrustDelta) ELSE s3

\* Satellite.check_keys() with the keys k held
check_keys(s, k) ==
    IF pressed(k) = << >> THEN s
    ELSE thruster(s, pressed(k)[1], pressed(k)[2])

\* Mutant: the arguments of atan2 in the usual (y, x) order
locate_swapped(s, p) ==
    LET dist_x == s.x - p.x
        dist_y == s.y - p.y
    IN  [s EXCEPT !.heading = atan2deg(dist_y, dist_x) - 90 * Scale,
                  !.distance = hypot(dist_x, dist_y)]

\* Satellite.locate(planet)
locate(s, p) ==
    LET dist_x == s.x - p.x
        dist_y == s.y - p.y
    IN  [s EXCEPT !.heading = atan2deg(dist_x, dist_y) - 90 * Scale,
                  !.distance = hypot(dist_x, dist_y)]

\* Satellite.rotate(): the image is image_sat turned by the stored heading
rotate(s) ==
    [s EXCEPT !.image = [base |-> "image_sat", angle |-> s.heading],
              !.rect_center = << >>]

\* Mutant: y advanced by dx
path_typo(s) ==
    [s EXCEPT !.x = @ + s.dx, !.y = @ + s.dx]

\* Satellite.path(); the line drawn on the background is not read back
path(s) ==
    [s EXCEPT !.x = @ + s.dx, !.y = @ + s.dy]

\* Mutant: the crash test on the velocity alone
crash_check_stopped(s) ==
    IF s.dx = 0 /\ s.dy = 0
    THEN [s EXCEPT !.image = [base |-> "image_crash", angle |-> 0]]
    ELSE s

\* The crash test at the end of Satellite.update()
crash_check(s) ==
    IF s.dx = 0 /\ s.y = 0
    THEN [s EXCEPT !.image = [base |-> "image_crash", angle |-> 0]]
    ELSE s

\* Mutant: the position integrated before the keys are checked
update_path_first(s, k) ==
    LET s1 == path(s)
        s2 == check_keys(s1, k)
        s3 == rotate(s2)
        s4 == [s3 EXCEPT !.rect_center = <<Pixel(s3.x), Pixel(s3.y)>>]
    IN  crash_check(s4)

\* Satellite.update() with the keys k held
update(s, k) ==
    LET s1 == check_keys(s, k)
        s2 == rotate(s1)
        s3 == path(s2)
        s4 == [s3 EXCEPT !.rect_center = <<Pixel(s3.x), Pixel(s3.y)>>]
    IN  crash_check(s4)

----------------------------------------------------------------------------
(* Planet *)

\* self.mass = 2000
PlanetMass == 2000

\* self.x = 400
PlanetX == 400

\* self.y = 320
PlanetY == 320

\* G = 1.0
G == 1

\* Planet.__init__; angle counts steps of rotate_by = math.degrees(0.01)
Planet__init__ ==
    [ x           |-> PlanetX * Scale,
      y           |-> PlanetY * Scale,
      mass        |-> PlanetMass,
      angle       |-> 0,
      image_angle |-> 0 ]

\* Planet.rotate()
planet_rotate(p) ==
    [p EXCEPT !.image_angle = p.angle, !.angle = @ + 1]

\* Planet.update()
planet_update(p) == planet_rotate(p)

\* Mutant: a force falling with the distance, not with its square
gravity_linear(p, s) ==
    LET dist_x == p.x - s.x
        dist_y == p.y - s.y
        distance == hypot(dist_x, dist_y)
    IN  IF distance = 0
        THEN [sat |-> s, err |-> "ZeroDivisionError"]
        ELSE LET ux == RoundDiv(dist_x * Scale, distance)
                 uy == RoundDiv(dist_y * Scale, distance)
                 force == RoundDiv(G * (s.mass * p.mass) * Scale * Scale, distance)
             IN  [sat |-> [s EXCEPT !.dx = @ + MulScale(ux, force),
                                    !.dy = @ + MulScale(uy, force)],
                  err |-> "none"]

\* Mutant: the distance clamped to one unit, so that nothing is raised
gravity_clamped(p, s) ==
    LET dist_x == p.x - s.x
        dist_y == p.y - s.y
        distance == IF hypot(dist_x, dist_y) = 0 THEN 1 ELSE hypot(dist_x, dist_y)
        ux == RoundDiv(dist_x * Scale, distance)
        uy == RoundDiv(dist_y * Scale, distance)
        force == RoundDiv(G * (s.mass * p.mass) * Scale * Scale * Scale,
                          distance * distance)
    IN  [sat |-> [s EXCEPT !.dx = @ + MulScale(ux, force),
                           !.dy = @ + MulScale(uy, force)],
         err |-> "none"]

\* Planet.gravity(satellite): the satellite afterwards and the exception
\* raised, if any.  distance = 0 makes "dist_x /= distance" raise before the
\* satellite is touched.
gravity(p, s) ==
    LET dist_x == p.x - s.x
        dist_y == p.y - s.y
        distance == hypot(dist_x, dist_y)
    IN  IF distance = 0
        THEN [sat |-> s, err |-> "ZeroDivisionError"]
        ELSE LET ux == RoundDiv(dist_x * Scale, distance)
                 uy == RoundDiv(dist_y * Scale, distance)
                 force == RoundDiv(G * (s.mass * p.mass) * Scale * Scale * Scale,
                                   distance * distance)
             IN  [sat |-> [s EXCEPT !.dx = @ + MulScale(ux, force),
                                    !.dy = @ + MulScale(uy, force)],
                  err |-> "none"]

----------------------------------------------------------------------------
(* The program as a state machine: one action per method call *)

\* The satellite is inside the simulated region, where the 32-bit arithmetic
\* of the model cannot overflow
InRegion(s) ==
    /\ Abs(s.x - planet.x) <= MaxDist
    /\ Abs(s.y - planet.y) <= MaxDist
    /\ Abs(s.dx) <= MaxSpeed
    /\ Abs(s.dy) <= MaxSpeed

\* No exception has ended the program and the run is within its bound
Running == err = "none" /\ nops < MaxOps /\ InRegion(sat)

\* The four thruster calls the program makes
ThrustArgs == {pressed({k}) : k \in Keys}

Thruster ==
    /\ Running
    /\ \E a \in ThrustArgs :
          /\ sat' = thruster(sat, a[1], a[2])
          /\ fired' = a
    /\ thrusts' = thrusts + 1
    /\ op' = "thruster"
    /\ nops' = nops + 1
    /\ UNCHANGED <<planet, keys, err>>

CheckKeys ==
    /\ Running
    /\ \E k \in SUBSET Keys :
          /\ keys' = k
          /\ sat' = check_keys(sat, k)
          /\ fired' = pressed(k)
          /\ thrusts' = thrusts + (IF pressed(k) = << >> THEN 0 ELSE 1)
    /\ op' = "check_keys"
    /\ nops' = nops + 1
    /\ UNCHANGED <<planet, err>>

Locate ==
    /\ Running
    /\ sat' = locate(sat, planet)
    /\ fired' = << >>
    /\ op' = "locate"
    /\ nops' = nops + 1
    /\ UNCHANGED <<planet, keys, err, thrusts>>

Rotate ==
    /\ Running
    /\ sat' = rotate(sat)
    /\ fired' = << >>
    /\ op' = "rotate"
    /\ nops' = nops + 1
    /\ UNCHANGED <<planet, keys, err, thrusts>>

Path ==
    /\ Running
    /\ sat' = path(sat)
    /\ fired' = << >>
    /\ op' = "path"
    /\ nops' = nops + 1
    /\ UNCHANGED <<planet, keys, err, thrusts>>

Update ==
    /\ Running
    /\ \E k \in SUBSET Keys :
          /\ keys' = k
          /\ sat' = update(sat, k)
          /\ fired' = pressed(k)
          /\ thrusts' = thrusts + (IF pressed(k) = << >> THEN 0 ELSE 1)
    /\ op' = "update"
    /\ nops' = nops + 1
    /\ UNCHANGED <<planet, err>>

Gravity ==
    /\ Running
    /\ sat' = gravity(planet, sat).sat
    /\ err' = gravity(planet, sat).err
    /\ fired' = << >>
    /\ op' = "gravity"
    /\ nops' = nops + 1
    /\ UNCHANGED <<planet, keys, thrusts>>

PlanetUpdate ==
    /\ Running
    /\ planet' = planet_update(planet)
    /\ fired' = << >>
    /\ op' = "planet_update"
    /\ nops' = nops + 1
    /\ UNCHANGED <<sat, keys, err, thrusts>>

Next ==
    \/ Thruster
    \/ CheckKeys
    \/ Locate
    \/ Rotate
    \/ Path
    \/ Update
    \/ Gravity
    \/ PlanetUpdate

\* The objects as constructed, for the outcomes of the random choices in
\* the sets xs, ys
Constructed(xs, ys) ==
    /\ planet = Planet__init__
    /\ sat \in {Satellite__init__(rx, ry, rdx) : rx \in xs, ry \in ys, rdx \in RandDx}
    /\ keys = {}
    /\ fired = << >>
    /\ op = "__init__"
    /\ err = "none"
    /\ thrusts = 0
    /\ nops = 0

\* The outcomes of the random choices the runs start from: the ends and the
\* middle of each range
StartX == {315, 400, 424}

StartY == {70, 179}

Init == Constructed(StartX, StartY)

Spec == Init /\ [][Next]_vars

----------------------------------------------------------------------------
(* The constructor alone, over every outcome of its random choices *)

\* Before the game starts no object exists
InitNew ==
    /\ planet = << >>
    /\ sat = << >>
    /\ keys = {}
    /\ fired = << >>
    /\ op = "start"
    /\ err = "none"
    /\ thrusts = 0
    /\ nops = 0

\* Planet() and Satellite(background)
New ==
    /\ op = "start"
    /\ planet' = Planet__init__
    /\ sat' \in {Satellite__init__(rx, ry, rdx) : rx \in RandX, ry \in RandY, rdx \in RandDx}
    /\ op' = "__init__"
    /\ UNCHANGED <<keys, fired, err, thrusts, nops>>

SpecNew == InitNew /\ [][New]_vars

----------------------------------------------------------------------------
(* A satellite in flight.  The states below are met only after more method  *)
(* calls than a bounded run from the constructor makes: thrust has been     *)
(* fired n times, and the satellite has moved to (xu, yu) with velocity     *)
(* (vx, vy), all in units.  With located, locate ran at this position;     *)
(* without, it never ran and heading and distance are still 0.             *)

InFlight(xu, yu, vx, vy, n, located) ==
    LET s0 == [Satellite__init__(0, 0, 0) EXCEPT
                   !.x = xu, !.y = yu, !.dx = vx, !.dy = vy,
                   !.fuel = InitialFuel - 2 * n]
        s1 == rotate(IF located THEN locate(s0, Planet__init__) ELSE s0)
    IN  [s1 EXCEPT !.rect_center = <<Pixel(xu), Pixel(yu)>>]

FlightStates ==
    { <<InFlight(PlanetX * Scale, PlanetY * Scale, 0, 0, 10, TRUE), 10>>,
      <<InFlight(PlanetX * Scale, (PlanetY - 100) * Scale, 0, 0, 0, FALSE), 0>>,
      <<InFlight((PlanetX + 60) * Scale, (PlanetY + 80) * Scale, 3 * Scale, 0, 0, TRUE), 0>>,
      <<InFlight(PlanetX * Scale, 0, 0, 0, 49, FALSE), 49>>,
      <<InFlight(PlanetX * Scale, ThrustDelta, 0, -ThrustDelta, 50, TRUE), 50>>,
      <<InFlight((PlanetX - 60) * Scale, PlanetY * Scale, ThrustDelta, 0, 51, FALSE), 51>>,
      <<InFlight(PlanetX * Scale, (PlanetY + 10) * Scale, 0, 0, 3, TRUE), 3>>,
      <<InFlight((PlanetX - 6) * Scale, (PlanetY - 8) * Scale, -3 * Scale, 2 * ThrustDelta, 60, TRUE), 60>>,
      <<InFlight(PlanetX * Scale - ThrustDelta, PlanetY * Scale, ThrustDelta, 0, 7, FALSE), 7>> }

InitFlight ==
    /\ planet = Planet__init__
    /\ \E f \in FlightStates : sat = f[1] /\ thrusts = f[2]
    /\ keys = {}
    /\ fired = << >>
    /\ op = "in_flight"
    /\ err = "none"
    /\ nops = 0

SpecFlight == InitFlight /\ [][Next]_vars

----------------------------------------------------------------------------
(* Claims *)

\* C1: every thruster activation, made directly, by check_keys or by update
\* and for any of the four directions, lowers fuel by exactly 2 and adds its
\* delta to the velocity whatever the fuel level is, zero and negative levels
\* included; so after n activations fuel = 100 - 2n.
C1_FuelPerThrust ==
    [][ /\ fired' # << >> =>
              /\ fired' \in {<<5, 0>>, <<-5, 0>>, <<0, -5>>, <<0, 5>>}
              /\ sat'.fuel = sat.fuel - 2
              /\ sat'.dx = sat.dx + fired'[1]
              /\ sat'.dy = sat.dy + fired'[2]
              /\ thrusts' = thrusts + 1
        /\ sat'.fuel = 100 - 2 * thrusts'
      ]_vars

\* C1 witness: a thruster call made with the tank already empty has acted
C1_Witness ==
    /\ op = "thruster"
    /\ fired # << >>
    /\ thrusts > 50
    /\ sat.fuel < -2

\* C2: one check_keys call (alone or inside update) fires at most one
\* thrust, chosen by the priority right > left > up > down among the held
\* keys; the other velocity component is unchanged, no held key changes
\* neither velocity nor fuel, and fuel drops by at most 2.
C2_KeyPriority ==
    [][ op' \in {"check_keys", "update"} =>
          /\ keys' \in SUBSET Keys
          /\ sat'.fuel >= sat.fuel - 2
          /\ "K_RIGHT" \in keys' =>
                /\ sat'.dx = sat.dx + 5 /\ sat'.dy = sat.dy
                /\ sat'.fuel = sat.fuel - 2
          /\ ("K_RIGHT" \notin keys' /\ "K_LEFT" \in keys') =>
                /\ sat'.dx = sat.dx - 5 /\ sat'.dy = sat.dy
                /\ sat'.fuel = sat.fuel - 2
          /\ ({"K_RIGHT", "K_LEFT"} \cap keys' = {} /\ "K_UP" \in keys') =>
                /\ sat'.dx = sat.dx /\ sat'.dy = sat.dy - 5
                /\ sat'.fuel = sat.fuel - 2
          /\ (keys' = {"K_DOWN"}) =>
                /\ sat'.dx = sat.dx /\ sat'.dy = sat.dy + 5
                /\ sat'.fuel = sat.fuel - 2
          /\ keys' = {} =>
                /\ sat'.dx = sat.dx /\ sat'.dy = sat.dy
                /\ sat'.fuel = sat.fuel
      ]_vars

\* C2 witness: check_keys has run with all four keys held and fired right
C2_Witness ==
    /\ op = "check_keys"
    /\ keys = Keys
    /\ fired = <<5, 0>>
    /\ sat.fuel = 98

\* C3: only the integration step (path, alone or inside update) changes the
\* position, and it sets it to (x + dx, y + dy) with the velocity current at
\* that moment; thruster, check_keys, gravity and locate leave x and y alone,
\* and path leaves dx, dy and fuel alone.
C3_PositionFrame ==
    [][ /\ (sat'.x # sat.x \/ sat'.y # sat.y) => op' \in {"path", "update"}
        /\ op' \in {"thruster", "check_keys", "gravity", "locate"} =>
              sat'.x = sat.x /\ sat'.y = sat.y
        /\ op' \in {"path", "update"} =>
              sat'.x = sat.x + sat'.dx /\ sat'.y = sat.y + sat'.dy
        /\ op' = "path" =>
              sat'.dx = sat.dx /\ sat'.dy = sat.dy /\ sat'.fuel = sat.fuel
      ]_vars

\* C3 witness: path has moved a satellite whose velocity gravity had changed
C3_Witness ==
    /\ op = "path"
    /\ nops = 2
    /\ sat.dy # 0
    /\ sat.y # 70 * Scale
    /\ sat.y # 179 * Scale

\* C4: a newly constructed Satellite has a whole-pixel x in [315, 425), a
\* whole-pixel y in [70, 180), dx = -3 or +3, dy = 0, fuel = 100, mass = 1,
\* heading = 0 and distance = 0, whatever the random choices were.
C4_Constructed ==
    op = "__init__" =>
        /\ sat.x % Scale = 0 /\ 315 * Scale <= sat.x /\ sat.x < 425 * Scale
        /\ sat.y % Scale = 0 /\ 70 * Scale <= sat.y /\ sat.y < 180 * Scale
        /\ sat.dx \in {-3 * Scale, 3 * Scale}
        /\ sat.dy = 0
        /\ sat.fuel = 100
        /\ sat.mass = 1 /\ sat.mass > 0
        /\ sat.heading = 0
        /\ sat.distance = 0

\* C4 witness: the constructor has drawn the last x, the first y and -3
C4_Witness ==
    /\ op = "__init__"
    /\ sat.x = 424 * Scale
    /\ sat.y = 70 * Scale
    /\ sat.dx = -3 * Scale

\* C5: once an update has selected the crashed image, the satellite is
\* still crashed after the next update, whatever thrust it fires.
C5_CrashedIsTerminal ==
    [][ (op = "update" /\ sat.image.base = "image_crash" /\ op' = "update")
            => sat'.image.base = "image_crash" ]_vars

C7_GravityIncrement ==
    [][ op' = "gravity" =>
          LET to_x == planet.x - sat.x
              to_y == planet.y - sat.y
              d == hypot(to_x, to_y)
              force == RoundDiv(1 * 1 * 2000 * Scale * Scale * Scale, d * d)
              inc_x == sat'.dx - sat.dx
              inc_y == sat'.dy - sat.dy
          IN  d > 0 =>
                /\ err' = "none"
                /\ inc_x = MulScale(RoundDiv(to_x * Scale, d), force)
                /\ inc_y = MulScale(RoundDiv(to_y * Scale, d), force)
                /\ inc_x * Sign(to_x) >= 0
                /\ inc_y * Sign(to_y) >= 0
                /\ (to_x = 0 /\ to_y = 100 * Scale) =>
                      inc_x = 0 /\ inc_y = Scale \div 5
                /\ (to_x = -60 * Scale /\ to_y = -80 * Scale) =>
                      inc_x = (-12 * Scale) \div 100 /\ inc_y = (-16 * Scale) \div 100
      ]_vars

\* C7 witness: gravity has acted on the satellite at rest at (400, 220)
C7_Witness ==
    /\ op = "gravity"
    /\ nops = 1
    /\ sat.x = 400 * Scale /\ sat.y = 220 * Scale
    /\ sat.dx = 0 /\ sat.dy = Scale \div 5

\* C8: gravity applied to a satellite exactly at the planet's position ends
\* in a division-by-zero error and leaves every attribute of the satellite
\* as it was; at any other position it raises nothing.
C8_ZeroDistance ==
    [][ op' = "gravity" =>
          IF sat.x = 400 * Scale /\ sat.y = 320 * Scale
          THEN err' = "ZeroDivisionError" /\ sat' = sat
          ELSE err' = "none"
      ]_vars

\* C8 witness: gravity has raised at the planet's position
C8_Witness ==
    /\ op = "gravity"
    /\ err = "ZeroDivisionError"
    /\ sat.x = planet.x /\ sat.y = planet.y

\* The offsets, in units, by which C9 moves satellite and planet together
Offsets == {-7 * Scale, 0, 13 * Scale + 5}

\* C9: locate sets heading = atan2(sat.x - planet.x, sat.y - planet.y) in
\* degrees - 90 and distance = hypot of the same vector; the result depends
\* neither on the heading and distance stored before (a second call changes
\* nothing) nor on a common translation of satellite and planet; a satellite
\* 100 pixels above the planet gets heading 90 and distance 100; nothing
\* else changes.
C9_Locate ==
    [][ op' = "locate" =>
          LET rel_x == sat.x - planet.x
              rel_y == sat.y - planet.y
          IN  /\ sat'.heading = atan2deg(rel_x, rel_y) - 90 * Scale
              /\ sat'.distance = hypot(rel_x, rel_y)
              /\ sat' = [sat EXCEPT !.heading = sat'.heading,
                                    !.distance = sat'.distance]
              /\ planet' = planet
              /\ locate(sat', planet') = sat'
              /\ \A h \in {0, -90 * Scale, 77} :
                    locate([sat EXCEPT !.heading = h, !.distance = h], planet)
                        = sat'
              /\ \A ox \in Offsets, oy \in Offsets :
                    LET moved == locate([sat EXCEPT !.x = @ + ox, !.y = @ + oy],
                                        [planet EXCEPT !.x = @ + ox, !.y = @ + oy])
                    IN  /\ moved.heading = sat'.heading
                        /\ moved.distance = sat'.distance
              /\ (rel_x = 0 /\ rel_y = -100 * Scale) =>
                    sat'.heading = 90 * Scale /\ sat'.distance = 100 * Scale
              /\ LET there == locate([sat EXCEPT !.x = 100 * Scale, !.y = 100 * Scale],
                                     [planet EXCEPT !.x = 100 * Scale, !.y = 200 * Scale])
                 IN  there.heading = 90 * Scale /\ there.distance = 100 * Scale
      ]_vars

\* C9 witness: locate has run 100 pixels above the planet with another
\* heading stored before
C9_Witness ==
    /\ op = "locate"
    /\ nops = 2
    /\ sat.x = planet.x /\ sat.y = planet.y - 100 * Scale
    /\ sat.heading = 90 * Scale
    /\ sat.distance = 100 * Scale
    /\ sat.dy # 0

C10_InsidePlanet ==
    /\ op = "update"
    /\ sat.x = planet.x /\ sat.y = planet.y
    /\ sat.image.base = "image_sat"

====
